---------------------------- MODULE Spec2Model ----------------------------
(***************************************************************************)
(* Model of cmd/token-bind-tool (main.go): one command-line invocation at  *)
(* a time, each a straight-line sequence of blocking steps.  The keystore  *)
(* directory persists between invocations; everything else is             *)
(* process-lifetime.  Strings are sequences of one-character strings.      *)
(***************************************************************************)
EXTENDS Integers, Sequences, FiniteSets, TLC

(***************************************************************************)
(* Bounds of the model.                                                    *)
(***************************************************************************)
\* largest number of accounts the keystore directory holds initially
MaxAccounts == 2
\* total supply values a TotalSupply read may return: 0..MaxSupply
MaxSupply == 2
\* receipt status values a receipt may carry: 0..MaxStatus (1 is success)
MaxStatus == 2
\* ledger account index flag values: 0..MaxLedgerIndex
MaxLedgerIndex == 1
\* balances read for the temporary account reach TxFee + MaxExtraBalance
MaxExtraBalance == 1

(***************************************************************************)
(* Program constants.                                                      *)
(***************************************************************************)
TestnetChainID == 97
MainnetChainID == 56
\* utils.DefaultGasPrice = 20000000000 wei, held here in gwei (1e9 wei)
DefaultGasPrice == 20
\* utils.DefaultGasLimit = 4700000 gas, held here in units of 100000 gas
DefaultGasLimit == 47
\* utils.OneBNB = 1e18 wei, held here in units of 1e14 wei (gwei * 100000)
OneBNB == 10000
\* len(...) == 42 / != 42: "0x" followed by 40 characters
AddrStrLen == 42
\* the hex digits of an address: the 42 characters less the "0x"
AddrNibbles == AddrStrLen - 2

InitKey == "initKey"
RefundRestBNBOp == "refundRestBNB"
DeployContract == "deployContract"
ApproveBindOp == "approveBindAndTransferOwnership"
DeployTransferRefund == "deploy_transferTokenAndOwnership_refund"
ApproveBindFromLedger == "approveBindFromLedger"
Mainnet == "mainnet"
TestNet == "testnet"

(***************************************************************************)
(* Strings and the conversions the program applies to them.                *)
(***************************************************************************)
Rep(c, n) == [i \in 1..n |-> c]

HexDigits ==
  {"0","1","2","3","4","5","6","7","8","9",
   "a","b","c","d","e","f","A","B","C","D","E","F"}

DecDigits == {"0","1","2","3","4","5","6","7","8","9"}

\* strings.HasPrefix(s, p)
HasPrefix(s, p) == Len(s) >= Len(p) /\ SubSeq(s, 1, Len(p)) = p

\* encoding/hex DecodeString: an error for a non-hex character or odd length
HexDecodeOK(s) == Len(s) % 2 = 0 /\ \A i \in 1..Len(s) : s[i] \in HexDigits

LowerHex(c) ==
  CASE c = "A" -> "a" [] c = "B" -> "b" [] c = "C" -> "c"
    [] c = "D" -> "d" [] c = "E" -> "e" [] c = "F" -> "f" [] OTHER -> c

\* common.has0xPrefix
Has0xPrefix(s) == Len(s) >= 2 /\ s[1] = "0" /\ s[2] \in {"x", "X"}

\* common.Hex2Bytes: hex.DecodeString with the error dropped, which keeps the
\* bytes decoded before the first pair holding a non-hex character
Hex2Bytes(s) ==
  LET good == {k \in 0..(Len(s) \div 2) : \A i \in 1..(2 * k) : s[i] \in HexDigits}
      n    == CHOOSE k \in good : \A j \in good : j <= k
  IN  [i \in 1..(2 * n) |-> LowerHex(s[i])]

\* common.FromHex: strip 0x, pad an odd length with a leading 0, decode
FromHex(s) ==
  LET s1 == IF Has0xPrefix(s) THEN SubSeq(s, 3, Len(s)) ELSE s
      s2 == IF Len(s1) % 2 = 1 THEN <<"0">> \o s1 ELSE s1
  IN  Hex2Bytes(s2)

\* common.BytesToAddress: the last 20 bytes, left-padded with zeros
BytesToAddress(b) ==
  IF Len(b) > AddrNibbles
  THEN SubSeq(b, Len(b) - AddrNibbles + 1, Len(b))
  ELSE Rep("0", AddrNibbles - Len(b)) \o b

\* common.HexToAddress
HexToAddress(s) == BytesToAddress(FromHex(s))

\* var tokenManager = common.HexToAddress("0x...1008")
tokenManager ==
  HexToAddress(<<"0","x">> \o Rep("0", 36) \o <<"1","0","0","8">>)

\* big.Int SetString(s, 10): optional sign, then one or more decimal digits
SetStringOK(s) ==
  LET body == IF Len(s) >= 1 /\ s[1] \in {"+", "-"} THEN Tail(s) ELSE s
  IN  Len(body) >= 1 /\ \A i \in 1..Len(body) : body[i] \in DecDigits

DigitVal(c) ==
  CASE c = "0" -> 0 [] c = "1" -> 1 [] c = "2" -> 2 [] c = "3" -> 3
    [] c = "4" -> 4 [] c = "5" -> 5 [] c = "6" -> 6 [] c = "7" -> 7
    [] c = "8" -> 8 [] c = "9" -> 9

RECURSIVE DecValue(_)
DecValue(s) ==
  IF s = <<>> THEN 0
  ELSE 10 * DecValue(SubSeq(s, 1, Len(s) - 1)) + DigitVal(s[Len(s)])

SetStringValue(s) ==
  IF s[1] = "-" THEN 0 - DecValue(Tail(s))
  ELSE IF s[1] = "+" THEN DecValue(Tail(s))
  ELSE DecValue(s)

(***************************************************************************)
(* State.                                                                  *)
(***************************************************************************)
VARIABLES
  keystore,      \* accounts (keystore files) in the keystore directory
  ks0,           \* history: the keystore directory before the first run
  tempSigners,   \* history: keystore accounts that signed, over all runs
  pc,            \* position of the running invocation ("idle": none)
  flags,         \* the command-line flags of the invocation
  chainId,       \* chain id resolved from the network type (0: not yet)
  configData,    \* BindConfig returned by readConfigData (NoConfig: none)
  tempAccount,   \* account returned by generateOrGetTempAccount
  unlocked,      \* accounts unlocked in this process
  ledgerOpen,    \* a hardware-wallet session was opened by this process
  ledgerAccount, \* account derived by openLedger
  contractAddr,  \* address taken from the deploy receipt
  totalSupply,   \* value returned by TotalSupply
  bindStatus,    \* approveBind receipt status (-1: not fetched)
  trace          \* calls, sleeps and printed lines of this invocation

vars ==
  <<keystore, ks0, tempSigners, pc, flags, chainId, configData, tempAccount,
    unlocked, ledgerOpen, ledgerAccount, contractAddr, totalSupply,
    bindStatus, trace>>

NoAccount == <<>>
NoAddr == <<>>
NoConfig == [ContractData |-> <<>>, Symbol |-> <<>>, BEP2Symbol |-> <<>>,
             LedgerAccount |-> <<>>]

KeystoreAccount(i) == <<"keystore", i>>
LedgerDerived(i) == <<"ledger", i>>
AccountIds == 1..(MaxAccounts + 1)

(***************************************************************************)
(* Inputs: flag values and config files an operator may supply.            *)
(***************************************************************************)
NetworkTypes == {TestNet, Mainnet, "devnet"}
Operations ==
  {InitKey, DeployContract, ApproveBindOp, RefundRestBNBOp,
   DeployTransferRefund, ApproveBindFromLedger, "", "bogus"}

Hex40 == Rep("4", 38) \o <<"e", "D">>
AddrInputs ==
  { <<"0", "x">> \o Hex40,              \* well-formed address
    Hex40,                               \* 40 hex digits, no prefix
    <<"0", "x">> \o Rep("4", 39),        \* prefix, one digit short
    Rep("4", AddrStrLen),                \* 42 characters, no prefix
    <<"0", "x">> \o Rep("g", 40),        \* prefix and length, not hex
    <<>> }                               \* flag left at its default ""

ContractDataInputs ==
  { <<"6", "0", "8", "0">>, <<"6", "0", "8">>, <<"6", "0", "z", "z">> }
Bep2SymbolInputs == { <<"A", "B", "C", "-", "1">>, <<>> }
SymbolText == <<"A", "B", "C">>

\* a config file: absent/unreadable, not JSON, or a JSON object whose missing
\* fields unmarshal to ""
ConfigFiles ==
  { [exists |-> FALSE, json |-> FALSE, cfg |-> NoConfig],
    [exists |-> TRUE, json |-> FALSE, cfg |-> NoConfig] }
  \cup
  { [exists |-> TRUE, json |-> TRUE,
     cfg |-> [ContractData |-> cd, Symbol |-> SymbolText, BEP2Symbol |-> b,
              LedgerAccount |-> la]] :
      cd \in ContractDataInputs, b \in Bep2SymbolInputs, la \in AddrInputs }
NoFile == [exists |-> FALSE, json |-> FALSE, cfg |-> NoConfig]

PeggyInputs == { <<"1", "2">>, <<"-", "3">>, <<"1", "x">>, <<>> }

UsesConfig(op) ==
  op \in {DeployContract, ApproveBindOp, DeployTransferRefund,
          ApproveBindFromLedger}
UsesBep20Addr(op) == op \in {ApproveBindOp, ApproveBindFromLedger}
UsesLedgerAccountFlag(op) == op = RefundRestBNBOp
UsesPeggy(op) == op = ApproveBindFromLedger

\* utils.DefaultGasPrice * utils.DefaultGasLimit
TxFee == DefaultGasPrice * DefaultGasLimit
Balances == {0, OneBNB} \cup ((TxFee - 1)..(TxFee + MaxExtraBalance))

(***************************************************************************)
(* The trace of an invocation.  k: "lib" (local library call), "read"      *)
(* (chain read), "tx" (transaction submission), "sleep", "out" (printed    *)
(* line), "chain" (the chain executes a transaction).  ok: the call        *)
(* returned no error.                                                      *)
(***************************************************************************)
Ev(k, n, ok, from, to, arg, amt) ==
  [k |-> k, n |-> n, ok |-> ok, from |-> from, to |-> to, arg |-> arg,
   amt |-> amt, chain |-> chainId]

Lib(n, ok) == Ev("lib", n, ok, NoAccount, NoAddr, <<>>, 0)
Read(n, ok, to, amt) == Ev("read", n, ok, NoAccount, to, <<>>, amt)
\* utils.GetTransactor is given no chain id (lines 352, 362, 379, 403, 460,
\* 475): the transactions it prepares go out under the chain context of the
\* run
TransactorChainId == chainId

\* the chain id a transaction is made for: the chainId argument of
\* utils.DeployBEP20Contract (line 320), utils.SendAllRestBNB (line 486) and
\* utils.SendTransactionFromLedger (lines 421, 437), else the transactor's
TxChainId(n, from) ==
  IF n \in {"DeployBEP20Contract", "Refund"}
     \/ (from # <<>> /\ from[1] = "ledger")
  THEN chainId ELSE TransactorChainId

Tx(n, ok, from, to, arg, amt) ==
  [Ev("tx", n, ok, from, to, arg, amt) EXCEPT !.chain = TxChainId(n, from)]
Slept(secs) == Ev("sleep", "Sleep", TRUE, NoAccount, NoAddr, <<>>, secs)
Out(n) == Ev("out", n, TRUE, NoAccount, NoAddr, <<>>, 0)
OutVal(n, amt) == Ev("out", n, TRUE, NoAccount, NoAddr, <<>>, amt)
\* fmt.Println(err.Error())
ErrLine == Out("error")

Init ==
  /\ keystore \in {{KeystoreAccount(i) : i \in 1..n} : n \in 0..MaxAccounts}
  /\ ks0 = keystore
  /\ tempSigners = {}
  /\ pc = "idle"
  /\ flags = [networkType |-> TestNet, operation |-> "", configFile |-> NoFile,
              bep20ContractAddr |-> <<>>, ledgerAccount |-> <<>>,
              peggyAmount |-> <<>>, ledgerAccountIndex |-> 0]
  /\ chainId = 0
  /\ configData = NoConfig
  /\ tempAccount = NoAccount
  /\ unlocked = {}
  /\ ledgerOpen = FALSE
  /\ ledgerAccount = NoAccount
  /\ contractAddr = NoAddr
  /\ totalSupply = 0
  /\ bindStatus = -1
  /\ trace = <<>>

\* what a step leaves alone besides pc and trace
Persist == UNCHANGED <<keystore, ks0, tempSigners>>
Locals ==
  UNCHANGED <<flags, chainId, configData, tempAccount, unlocked, ledgerOpen,
              ledgerAccount, contractAddr, totalSupply, bindStatus>>

(***************************************************************************)
(* The operator starts the tool: initFlags.  Flags the chosen operation    *)
(* never reads stay at their defaults.                                     *)
(***************************************************************************)
Start ==
  /\ pc = "idle"
  /\ \E nt \in NetworkTypes, op \in Operations :
     \E cf \in (IF UsesConfig(op) THEN ConfigFiles ELSE {NoFile}),
        ca \in (IF UsesBep20Addr(op) THEN AddrInputs ELSE {<<>>}),
        la \in (IF UsesLedgerAccountFlag(op) THEN AddrInputs ELSE {<<>>}),
        pa \in (IF UsesPeggy(op) THEN PeggyInputs ELSE {<<>>}),
        ix \in (IF UsesPeggy(op) THEN 0..MaxLedgerIndex ELSE {0}) :
       flags' = [networkType |-> nt, operation |-> op, configFile |-> cf,
                 bep20ContractAddr |-> ca, ledgerAccount |-> la,
                 peggyAmount |-> pa, ledgerAccountIndex |-> ix]
  /\ pc' = "main"
  /\ UNCHANGED <<keystore, ks0, tempSigners, chainId, configData, tempAccount,
                 unlocked, ledgerOpen, ledgerAccount, contractAddr,
                 totalSupply, bindStatus, trace>>

\* main, lines 183-189
UsageCheck(nt, op) == (nt # TestNet /\ nt # Mainnet) \/ op = ""

\* a variant of ChainIdOf with the two chain ids exchanged
ChainIdOf_Swapped(nt) ==
  IF nt = Mainnet THEN TestnetChainID ELSE MainnetChainID

\* main, lines 193-207
ChainIdOf(nt) == IF nt = Mainnet THEN MainnetChainID ELSE TestnetChainID

\* main, lines 183-209: usage check, dial the RPC endpoint, fix the chain id
MainSetup ==
  /\ pc = "main"
  /\ IF UsageCheck(flags.networkType, flags.operation)
     THEN /\ trace' = Append(trace, Out("usage"))
          /\ pc' = "done"
          /\ UNCHANGED chainId
     ELSE \E ok \in BOOLEAN :
            IF ok
            THEN /\ chainId' = ChainIdOf(flags.networkType)
                 /\ trace' = Append(trace, Lib("DialContext", TRUE))
                 /\ pc' = "switch"
            ELSE /\ trace' = trace \o <<Lib("DialContext", FALSE), ErrLine>>
                 /\ pc' = "done"
                 /\ UNCHANGED chainId
  /\ Persist
  /\ UNCHANGED <<flags, configData, tempAccount, unlocked, ledgerOpen,
                 ledgerAccount, contractAddr, totalSupply, bindStatus>>

\* the process returns from main: nothing but the keystore directory remains
Exit ==
  /\ pc = "done"
  /\ pc' = "idle"
  /\ flags' = [networkType |-> TestNet, operation |-> "", configFile |-> NoFile,
               bep20ContractAddr |-> <<>>, ledgerAccount |-> <<>>,
               peggyAmount |-> <<>>, ledgerAccountIndex |-> 0]
  /\ chainId' = 0
  /\ configData' = NoConfig
  /\ tempAccount' = NoAccount
  /\ unlocked' = {}
  /\ ledgerOpen' = FALSE
  /\ ledgerAccount' = NoAccount
  /\ contractAddr' = NoAddr
  /\ totalSupply' = 0
  /\ bindStatus' = -1
  /\ trace' = <<>>
  /\ Persist

(***************************************************************************)
(* main: the operation switch, lines 211-312.                              *)
(***************************************************************************)
\* the address check of lines 237, 255 and 294, as written
InvalidCliAddr(s) == HasPrefix(s, <<"0", "x">>) \/ Len(s) = AddrStrLen

\* a step that only moves on or stops with printed lines
Goto(next, lines) ==
  /\ pc' = next
  /\ trace' = trace \o lines
  /\ Persist
  /\ Locals

\* case utils.InitKey, line 212
SwitchInitKey ==
  /\ pc = "switch" /\ flags.operation = InitKey
  /\ Goto("genAccount", <<>>)

\* case utils.DeployContract, line 219
SwitchDeployContract ==
  /\ pc = "switch" /\ flags.operation = DeployContract
  /\ Goto("readConfig", <<>>)

\* case utils.ApproveBind, lines 235-240
SwitchApproveBind ==
  /\ pc = "switch" /\ flags.operation = ApproveBindOp
  /\ IF InvalidCliAddr(flags.bep20ContractAddr)
     THEN Goto("done", <<Out("Invalid bep20 contract address")>>)
     ELSE Goto("readConfig", <<>>)

\* case utils.RefundRestBNB, lines 253-258
SwitchRefundRestBNB ==
  /\ pc = "switch" /\ flags.operation = RefundRestBNBOp
  /\ IF InvalidCliAddr(flags.ledgerAccount)
     THEN Goto("done", <<Out("Invalid refund address")>>)
     ELSE Goto("genAccount", <<>>)

\* case utils.DeployTransferRefund, line 265
SwitchDeployTransferRefund ==
  /\ pc = "switch" /\ flags.operation = DeployTransferRefund
  /\ Goto("readConfig", <<>>)

\* case utils.ApproveBindFromLedger, lines 283-297
SwitchApproveBindFromLedger ==
  /\ pc = "switch" /\ flags.operation = ApproveBindFromLedger
  /\ IF ~SetStringOK(flags.peggyAmount)
     THEN Goto("done", <<Out("invalid peggy amount")>>)
     ELSE IF InvalidCliAddr(flags.bep20ContractAddr)
     THEN Goto("done", <<Out("Invalid bep20 contract address")>>)
     ELSE Goto("readConfig", <<>>)

\* default, lines 309-310
SwitchDefault ==
  /\ pc = "switch"
  /\ flags.operation \notin {InitKey, DeployContract, ApproveBindOp,
                             RefundRestBNBOp, DeployTransferRefund,
                             ApproveBindFromLedger}
  /\ Goto("done", <<Out("unsupported operation")>>)

(***************************************************************************)
(* readConfigData and BindConfig.Validate, lines 48-103.                   *)
(***************************************************************************)
\* BindConfig.Validate: "" for nil, else the error
Validate(bindConfig) ==
  IF ~HexDecodeOK(bindConfig.ContractData)
  THEN "invalid contract byte code"
  ELSE IF Len(bindConfig.BEP2Symbol) = 0
  THEN "missing bep2 token symbol"
  ELSE IF ~HasPrefix(bindConfig.LedgerAccount, <<"0", "x">>)
          \/ Len(bindConfig.LedgerAccount) # AddrStrLen
  THEN "invalid ledger account"
  ELSE ""

\* readConfigData: "" for nil, else the error
ReadConfigError(file) ==
  IF ~file.exists THEN "open"
  ELSE IF ~file.json THEN "unmarshal"
  ELSE Validate(file.cfg)

\* where each case of main goes once the config is loaded
AfterReadConfig(op) ==
  IF op = ApproveBindFromLedger THEN "openLedger" ELSE "genAccount"

\* a variant of ReadConfig that reports the error and carries on
ReadConfig_NoReturn ==
  /\ pc = "readConfig"
  /\ IF ReadConfigError(flags.configFile) = ""
     THEN /\ configData' = flags.configFile.cfg
          /\ trace' = Append(trace, Lib("readConfigData", TRUE))
     ELSE /\ configData' = NoConfig
          /\ trace' = trace \o <<Lib("readConfigData", FALSE), ErrLine>>
  /\ pc' = AfterReadConfig(flags.operation)
  /\ Persist
  /\ UNCHANGED <<flags, chainId, tempAccount, unlocked, ledgerOpen,
                 ledgerAccount, contractAddr, totalSupply, bindStatus>>

\* lines 220-224, 241-245, 266-270, 298-302
ReadConfig ==
  /\ pc = "readConfig"
  /\ IF ReadConfigError(flags.configFile) = ""
     THEN /\ configData' = flags.configFile.cfg
          /\ trace' = Append(trace, Lib("readConfigData", TRUE))
          /\ pc' = AfterReadConfig(flags.operation)
     ELSE /\ configData' = NoConfig
          /\ trace' = trace \o <<Lib("readConfigData", FALSE), ErrLine>>
          /\ pc' = "done"
  /\ Persist
  /\ UNCHANGED <<flags, chainId, tempAccount, unlocked, ledgerOpen,
                 ledgerAccount, contractAddr, totalSupply, bindStatus>>

(***************************************************************************)
(* generateOrGetTempAccount, lines 105-141.  The keystore library may      *)
(* fail: fault names the call that returns an error ("none": no call).     *)
(* The directory has one reader and writer at a time, so the second        *)
(* keyStore.Accounts() of the "load" branch (lines 125-128) sees what the  *)
(* first saw.                                                              *)
(***************************************************************************)
KeystoreFaults == {"none", "Getwd", "NewAccount", "Unlock"}

\* a variant of AccountBranch without the fatal branch
AccountBranch_NoFatal(n) == IF n = 0 THEN "create" ELSE "load"

\* a variant of AccountBranch that creates an account beside an existing one
AccountBranch_CreateBesideOne(n) ==
  IF n <= 1 THEN "create" ELSE "fatal"

\* the three-way branch on len(keyStore.Accounts()), lines 111, 124, 138
AccountBranch(n) ==
  IF n = 0 THEN "create" ELSE IF n = 1 THEN "load" ELSE "fatal"

\* where each case of main goes with the temporary account at hand
AfterGenAccount(op) ==
  CASE op = InitKey -> "done"
    [] op = DeployContract -> "Deploy_Submit"
    [] op = ApproveBindOp -> "AB_TotalSupply"
    [] op = RefundRestBNBOp -> "RF_Sleep"
    [] op = DeployTransferRefund -> "Deploy_Submit"

\* the caller's "if err != nil { fmt.Println(err.Error()); return }"
GenAccountFailed(evs) ==
  /\ trace' = trace \o evs \o <<ErrLine>>
  /\ pc' = "done"
  /\ tempAccount' = NoAccount

GenAccountReturned(evs, acct, line) ==
  /\ trace' = trace \o evs \o <<Out(line)>>
  /\ pc' = AfterGenAccount(flags.operation)
  /\ tempAccount' = acct

generateOrGetTempAccount ==
  /\ pc = "genAccount"
  /\ \E fault \in KeystoreFaults :
       LET n    == Cardinality(keystore)
           seen == Ev("lib", "Accounts", TRUE, NoAccount, NoAddr, <<>>, n)
       IN
       IF fault = "Getwd"
       THEN /\ GenAccountFailed(<<Lib("Getwd", FALSE)>>)
            /\ UNCHANGED <<keystore, unlocked>>
       ELSE IF AccountBranch(n) = "create"
       THEN \E i \in AccountIds :
              LET newAccount == KeystoreAccount(i) IN
              /\ newAccount \notin keystore
              /\ IF fault = "NewAccount"
                 THEN /\ GenAccountFailed(<<seen, Lib("NewAccount", FALSE)>>)
                      /\ UNCHANGED <<keystore, unlocked>>
                 ELSE /\ keystore' = keystore \cup {newAccount}
                      /\ IF fault = "Unlock"
                         THEN /\ GenAccountFailed(<<seen, Lib("NewAccount", TRUE),
                                                    Lib("Unlock", FALSE)>>)
                              /\ UNCHANGED unlocked
                         ELSE /\ unlocked' = unlocked \cup {newAccount}
                              /\ GenAccountReturned(
                                   <<seen, Lib("NewAccount", TRUE),
                                     Lib("Unlock", TRUE)>>,
                                   newAccount, "Create temp account")
       ELSE IF AccountBranch(n) = "load"
       THEN LET account == CHOOSE a \in keystore : TRUE IN
            /\ UNCHANGED keystore
            /\ IF fault = "Unlock"
               THEN /\ GenAccountFailed(<<seen, Lib("Unlock", FALSE)>>)
                    /\ UNCHANGED unlocked
               ELSE /\ unlocked' = unlocked \cup {account}
                    /\ GenAccountReturned(<<seen, Lib("Unlock", TRUE)>>,
                                          account, "Load temp account")
       ELSE /\ GenAccountFailed(
                 <<seen, Lib("generateOrGetTempAccount", FALSE)>>)
            /\ UNCHANGED <<keystore, unlocked>>
  /\ UNCHANGED <<ks0, tempSigners, flags, chainId, configData, ledgerOpen,
                 ledgerAccount, contractAddr, totalSupply, bindStatus>>

(***************************************************************************)
(* openLedger, lines 143-178, and its caller, lines 303-307.               *)
(***************************************************************************)
\* "hub": NewLedgerHub or Wallets fails, before the session is opened;
\* "open": wallet.Open fails; "derive": Status or Derive fails, session open
LedgerFaults == {"none", "hub", "open", "derive"}

openLedger ==
  /\ pc = "openLedger"
  /\ \E fault \in LedgerFaults :
       /\ ledgerOpen' = (fault \in {"none", "derive"})
       /\ IF fault = "none"
          THEN /\ ledgerAccount' = LedgerDerived(flags.ledgerAccountIndex)
               /\ trace' = Append(trace, Lib("openLedger", TRUE))
               /\ pc' = "LG_Approve"
          ELSE /\ ledgerAccount' = NoAccount
               /\ trace' = trace \o <<Lib("openLedger", FALSE), ErrLine>>
               /\ pc' = "done"
  /\ Persist
  /\ UNCHANGED <<flags, chainId, configData, tempAccount, unlocked,
                 contractAddr, totalSupply, bindStatus>>

(***************************************************************************)
(* Steps on the chain.  Every RPC call may return an error.                *)
(***************************************************************************)
\* what the invocation has set up, which no chain step changes
Context ==
  UNCHANGED <<flags, chainId, configData, tempAccount, unlocked, ledgerOpen,
              ledgerAccount>>

\* utils.GetTransactor / SendTransactionFromLedger: the account that signs
Sign(acct) ==
  /\ tempSigners' = IF acct # NoAccount /\ acct[1] = "keystore"
                    THEN tempSigners \cup {acct} ELSE tempSigners
  /\ UNCHANGED <<keystore, ks0>>

Step(evs, next) == trace' = trace \o evs /\ pc' = next

\* "fmt.Println(err.Error()); return" where the return ends the invocation
Fail(ev) == Step(<<ev, ErrLine>>, "done")

\* a variant of SleepSecs without the wait between deployment and receipt
SleepSecs_NoDeployWait(at) ==
  IF at = "Deploy_Sleep" THEN 0 ELSE IF at \in {"AB_Sleep1", "LG_Sleep"}
  THEN 20 ELSE 10

\* the argument of each utils.Sleep call, by the position that makes it
SleepSecs(at) ==
  CASE at = "Deploy_Sleep" -> 10        \* line 325
    [] at = "AB_Sleep1" -> 20           \* line 359
    [] at = "AB_Sleep2" -> 10           \* line 369
    [] at = "AB_RejectSleep" -> 10      \* line 385
    [] at = "AB_Sleep3" -> 10           \* line 396
    [] at = "LG_Sleep" -> 20            \* line 428
    [] at = "TT_Sleep" -> 10            \* line 467
    [] at = "RF_Sleep" -> 10            \* line 485

\* the step that follows each utils.Sleep call
AfterSleep(at) ==
  CASE at = "Deploy_Sleep" -> "Deploy_Receipt"
    [] at = "AB_Sleep1" -> "AB_ApproveBind"
    [] at = "AB_Sleep2" -> "AB_Receipt"
    [] at = "AB_RejectSleep" -> "AB_RejectReceipt"
    [] at = "AB_Sleep3" -> "AB_TransferOwnership"
    [] at = "LG_Sleep" -> "LG_ApproveBind"
    [] at = "TT_Sleep" -> "TT_TransferOwnership"
    [] at = "RF_Sleep" -> "RF_Send"

SleepPoints ==
  {"Deploy_Sleep", "AB_Sleep1", "AB_Sleep2", "AB_RejectSleep", "AB_Sleep3",
   "LG_Sleep", "TT_Sleep", "RF_Sleep"}

\* utils.Sleep(n): blocks for n seconds
Sleep ==
  /\ pc \in SleepPoints
  /\ Step(<<Slept(SleepSecs(pc))>>, AfterSleep(pc))
  /\ Persist
  /\ Locals

(***************************************************************************)
(* DeployContractFromTempAccount, lines 314-336, with its callers' error   *)
(* handling, lines 230-234 and 276-280.                                    *)
(***************************************************************************)
DeployedAddrs == { Rep("c", AddrNibbles) }

\* lines 315-324
Deploy_Submit ==
  /\ pc = "Deploy_Submit"
  /\ IF ~HexDecodeOK(configData.ContractData)
     THEN /\ Step(<<Out("Deploy BEP20 contract from account"),
                     Lib("hex.DecodeString", FALSE), ErrLine>>, "done")
          /\ Persist
     ELSE \E ok \in BOOLEAN :
            LET tx == Tx("DeployBEP20Contract", ok, tempAccount, NoAddr,
                         <<configData.ContractData>>, 0) IN
            /\ Sign(tempAccount)
            /\ IF ok
               THEN Step(<<Out("Deploy BEP20 contract from account"), tx,
                           Out("Deploy BEP20 contract txHash")>>,
                         "Deploy_Sleep")
               ELSE Step(<<Out("Deploy BEP20 contract from account"), tx,
                           ErrLine>>, "done")
  /\ Context
  /\ UNCHANGED <<contractAddr, totalSupply, bindStatus>>

\* main, lines 234 and 281: what follows a successful deployment
AfterDeploy(op) ==
  IF op = DeployTransferRefund THEN "TT_TotalSupply" ELSE "done"

\* lines 327-335
Deploy_Receipt ==
  /\ pc = "Deploy_Receipt"
  /\ \E ok \in BOOLEAN :
       IF ok
       THEN \E a \in DeployedAddrs :
              /\ contractAddr' = a
              /\ Step(<<Read("TransactionReceipt", TRUE, NoAddr, 1),
                        Out("The deployed BEP20 contract address")>>,
                      AfterDeploy(flags.operation))
       ELSE /\ Fail(Read("TransactionReceipt", FALSE, NoAddr, 0))
            /\ UNCHANGED contractAddr
  /\ Persist
  /\ Context
  /\ UNCHANGED <<totalSupply, bindStatus>>

(***************************************************************************)
(* ApproveBindAndTransferOwnershipAndRestBalanceBackToLedgerAccount,       *)
(* lines 338-410, called at line 252 with                                  *)
(* bep20ContractAddr = common.HexToAddress(flag).                          *)
(***************************************************************************)
Bep20ContractAddr == HexToAddress(flags.bep20ContractAddr)

\* big.NewInt(1e16), in the unit of OneBNB
BindFee == OneBNB \div 100

\* lines 339-349
AB_TotalSupply ==
  /\ pc = "AB_TotalSupply"
  /\ \E ok \in BOOLEAN :
       IF ok
       THEN \E n \in 0..MaxSupply :
              /\ totalSupply' = n
              /\ Step(<<Read("TotalSupply", TRUE, Bep20ContractAddr, n),
                        OutVal("Total Supply", n)>>, "AB_Approve")
       ELSE /\ Fail(Read("TotalSupply", FALSE, Bep20ContractAddr, 0))
            /\ UNCHANGED totalSupply
  /\ Persist
  /\ Context
  /\ UNCHANGED <<contractAddr, bindStatus>>

\* lines 351-357
AB_Approve ==
  /\ pc = "AB_Approve"
  /\ \E ok \in BOOLEAN :
       LET tx == Tx("Approve", ok, tempAccount, Bep20ContractAddr,
                    <<tokenManager>>, totalSupply) IN
       IF ok
       THEN Step(<<Out("Approve to TokenManager"), tx,
                   Out("Approve token to tokenManager txHash")>>, "AB_Sleep1")
       ELSE Step(<<Out("Approve to TokenManager"), tx, ErrLine>>, "done")
  /\ Sign(tempAccount)
  /\ Context
  /\ UNCHANGED <<contractAddr, totalSupply, bindStatus>>

\* the arguments of tokenManagerInstance.ApproveBind, line 362
ApproveBindArgs == <<Bep20ContractAddr, configData.BEP2Symbol>>

\* a variant of RejectBindArgs that passes the BEP20 symbol
RejectBindArgs_WrongSymbol == <<Bep20ContractAddr, configData.Symbol>>

\* the arguments of tokenManagerInstance.RejectBind, line 379
RejectBindArgs == <<Bep20ContractAddr, configData.BEP2Symbol>>

\* lines 361-367
AB_ApproveBind ==
  /\ pc = "AB_ApproveBind"
  /\ \E ok \in BOOLEAN :
       LET tx == Tx("ApproveBind", ok, tempAccount, tokenManager,
                    ApproveBindArgs, BindFee) IN
       IF ok
       THEN Step(<<tx, Out("ApproveBind txHash")>>, "AB_Sleep2")
       ELSE Step(<<tx, ErrLine>>, "done")
  /\ Sign(tempAccount)
  /\ Context
  /\ UNCHANGED <<contractAddr, totalSupply, bindStatus>>

\* a variant of BindFailed that takes only status 0 for a failure
BindFailed_OnlyZero(status) == status = 0

\* "if approveBindTxRecipient.Status != 1", line 377
BindFailed(status) == status # 1

\* lines 371-378
AB_Receipt ==
  /\ pc = "AB_Receipt"
  /\ \E ok \in BOOLEAN :
       IF ok
       THEN \E st \in 0..MaxStatus :
              /\ bindStatus' = st
              /\ IF BindFailed(st)
                 THEN Step(<<Read("TransactionReceipt", TRUE, NoAddr, st),
                             Out("Track approveBind Tx status"),
                             Out("Approve Bind Failed")>>, "AB_RejectBind")
                 ELSE Step(<<Read("TransactionReceipt", TRUE, NoAddr, st),
                             Out("Track approveBind Tx status")>>, "AB_Sleep3")
       ELSE /\ Fail(Read("TransactionReceipt", FALSE, NoAddr, 0))
            /\ UNCHANGED bindStatus
  /\ Persist
  /\ Context
  /\ UNCHANGED <<contractAddr, totalSupply>>

\* lines 379-384
AB_RejectBind ==
  /\ pc = "AB_RejectBind"
  /\ \E ok \in BOOLEAN :
       LET tx == Tx("RejectBind", ok, tempAccount, tokenManager,
                    RejectBindArgs, BindFee) IN
       IF ok
       THEN Step(<<tx, Out("RejectBind txHash")>>, "AB_RejectSleep")
       ELSE Step(<<tx, ErrLine>>, "done")
  /\ Sign(tempAccount)
  /\ Context
  /\ UNCHANGED <<contractAddr, totalSupply, bindStatus>>

\* lines 386-393
AB_RejectReceipt ==
  /\ pc = "AB_RejectReceipt"
  /\ \E ok \in BOOLEAN :
       IF ok
       THEN \E st \in 0..MaxStatus :
              Step(<<Out("Track rejectBind Tx status"),
                     Read("RejectReceipt", TRUE, NoAddr, st),
                     OutVal("reject bind tx recipient status", st)>>, "done")
       ELSE Step(<<Out("Track rejectBind Tx status"),
                   Read("RejectReceipt", FALSE, NoAddr, 0), ErrLine>>, "done")
  /\ Persist
  /\ Locals

\* lines 397-409
AB_TransferOwnership ==
  /\ pc = "AB_TransferOwnership"
  /\ \E ok \in BOOLEAN :
       LET tx == Tx("TransferOwnership", ok, tempAccount, Bep20ContractAddr,
                    <<HexToAddress(configData.LedgerAccount)>>, 0) IN
       IF ok
       THEN Step(<<Out("Transfer ownership to ledger account"), tx,
                   Out("Transfer ownership txHash")>>, "done")
       ELSE Step(<<Out("Transfer ownership to ledger account"), tx,
                   ErrLine>>, "done")
  /\ Sign(tempAccount)
  /\ Context
  /\ UNCHANGED <<contractAddr, totalSupply, bindStatus>>

(***************************************************************************)
(* ApproveBind, lines 412-444, called at line 308: signed by the account   *)
(* derived from the hardware wallet.                                       *)
(***************************************************************************)
\* lines 413-426
LG_Approve ==
  /\ pc = "LG_Approve"
  /\ \E ok \in BOOLEAN :
       LET tx == Tx("Approve", ok, ledgerAccount, Bep20ContractAddr,
                    <<tokenManager>>, SetStringValue(flags.peggyAmount)) IN
       IF ok
       THEN Step(<<Out("Approve to TokenManager"), tx,
                   Out("Approve token to tokenManager txHash")>>, "LG_Sleep")
       ELSE Step(<<Out("Approve to TokenManager"), tx, ErrLine>>, "done")
  /\ Sign(ledgerAccount)
  /\ Context
  /\ UNCHANGED <<contractAddr, totalSupply, bindStatus>>

\* what the chain makes of a submitted transaction, read by nobody: its
\* receipt status st
Mined(n, st) == Ev("chain", n, st = 1, NoAccount, NoAddr, <<>>, st)

\* lines 430-443: the function ends with the approveBind submission; the
\* chain then executes the transaction with some status
LG_ApproveBind ==
  /\ pc = "LG_ApproveBind"
  /\ \E ok \in BOOLEAN :
       LET tx == Tx("ApproveBind", ok, ledgerAccount, tokenManager,
                    <<Bep20ContractAddr, configData.BEP2Symbol>>, 0) IN
       IF ok
       THEN \E st \in 0..MaxStatus :
              Step(<<tx, Out("ApproveBind txHash"), Mined("ApproveBind", st)>>,
                   "done")
       ELSE Step(<<tx, ErrLine>>, "done")
  /\ Sign(ledgerAccount)
  /\ Context
  /\ UNCHANGED <<contractAddr, totalSupply, bindStatus>>

(***************************************************************************)
(* TransferTokenAndOwnership, lines 446-482, called at line 281 with       *)
(* tokenOwner = common.HexToAddress(config.LedgerAccount) and the deployed *)
(* contract.  It returns nothing: main goes on to line 282 however it ends.*)
(***************************************************************************)
TokenOwner == HexToAddress(configData.LedgerAccount)

\* main, line 282: the statement after the call of TransferTokenAndOwnership,
\* reached by each of its returns
AfterTransferTokenAndOwnership(succeeded) == "RF_Sleep"

\* lines 447-457
TT_TotalSupply ==
  /\ pc = "TT_TotalSupply"
  /\ \E ok \in BOOLEAN :
       IF ok
       THEN \E n \in 0..MaxSupply :
              /\ totalSupply' = n
              /\ Step(<<Read("TotalSupply", TRUE, contractAddr, n),
                        OutVal("Total Supply", n)>>, "TT_Transfer")
       ELSE /\ Step(<<Read("TotalSupply", FALSE, contractAddr, 0), ErrLine>>,
                    AfterTransferTokenAndOwnership(FALSE))
            /\ UNCHANGED totalSupply
  /\ Persist
  /\ Context
  /\ UNCHANGED <<contractAddr, bindStatus>>

\* lines 459-465
TT_Transfer ==
  /\ pc = "TT_Transfer"
  /\ \E ok \in BOOLEAN :
       LET tx == Tx("Transfer", ok, tempAccount, contractAddr, <<TokenOwner>>,
                    totalSupply) IN
       IF ok
       THEN Step(<<Out("Transfer token to"), tx,
                   Out("Transfer token txHash")>>, "TT_Sleep")
       ELSE Step(<<Out("Transfer token to"), tx, ErrLine>>,
                 AfterTransferTokenAndOwnership(FALSE))
  /\ Sign(tempAccount)
  /\ Context
  /\ UNCHANGED <<contractAddr, totalSupply, bindStatus>>

\* lines 469-481
TT_TransferOwnership ==
  /\ pc = "TT_TransferOwnership"
  /\ \E ok \in BOOLEAN :
       LET tx == Tx("TransferOwnership", ok, tempAccount, contractAddr,
                    <<TokenOwner>>, 0) IN
       IF ok
       THEN Step(<<Out("Transfer ownership to"), tx,
                   Out("Transfer ownership txHash")>>,
                 AfterTransferTokenAndOwnership(TRUE))
       ELSE Step(<<Out("Transfer ownership to"), tx, ErrLine>>,
                 AfterTransferTokenAndOwnership(FALSE))
  /\ Sign(tempAccount)
  /\ Context
  /\ UNCHANGED <<contractAddr, totalSupply, bindStatus>>

(***************************************************************************)
(* RefundRestBNB, lines 484-492, called at lines 264 and 282.              *)
(***************************************************************************)
\* a variant of RefundAddr that always takes the config's ledger account
RefundAddr_FromConfig(op) == HexToAddress(configData.LedgerAccount)

\* the refundAddr argument: line 264 (flag) and line 282 (config)
RefundAddr(op) ==
  IF op = RefundRestBNBOp
  THEN HexToAddress(flags.ledgerAccount)
  ELSE HexToAddress(configData.LedgerAccount)

\* utils.SendAllRestBNB: the amount sent for a balance
RestAmount(balance) == balance - TxFee

\* utils.SendAllRestBNB: a balance below the reserved gas cost is an error
\* and nothing is sent
CanRefund(balance) == balance >= TxFee

\* utils.SendAllRestBNB: read the balance, send what is left after the
\* reserved gas cost; the events of one call that read balance b
SendAllRestBNB(readOk, b, sendOk) ==
  IF ~readOk
  THEN <<Read("BalanceAt", FALSE, NoAddr, 0)>>
  ELSE IF ~CanRefund(b)
  THEN <<Read("BalanceAt", TRUE, NoAddr, b), Lib("SendAllRestBNB", FALSE)>>
  ELSE <<Read("BalanceAt", TRUE, NoAddr, b),
         Tx("Refund", sendOk, tempAccount, RefundAddr(flags.operation), <<>>,
            RestAmount(b))>>

\* lines 486-491: the error is printed, and the link is printed either way
RF_Send ==
  /\ pc = "RF_Send"
  /\ \E readOk \in BOOLEAN, b \in Balances, sendOk \in BOOLEAN :
       LET evs == SendAllRestBNB(readOk, b, sendOk)
           err == ~evs[Len(evs)].ok
       IN
           /\ IF err
              THEN Step(evs \o <<ErrLine, Out("Refund txHash")>>, "done")
              ELSE Step(evs \o <<Out("Refund txHash")>>, "done")
           /\ IF evs[Len(evs)].k = "tx" THEN Sign(tempAccount) ELSE Persist
  /\ Context
  /\ UNCHANGED <<contractAddr, totalSupply, bindStatus>>

(***************************************************************************)
(* The specification.                                                      *)
(***************************************************************************)
Next ==
  \/ Start
  \/ MainSetup
  \/ SwitchInitKey
  \/ SwitchDeployContract
  \/ SwitchApproveBind
  \/ SwitchRefundRestBNB
  \/ SwitchDeployTransferRefund
  \/ SwitchApproveBindFromLedger
  \/ SwitchDefault
  \/ ReadConfig
  \/ generateOrGetTempAccount
  \/ openLedger
  \/ Sleep
  \/ Deploy_Submit
  \/ Deploy_Receipt
  \/ AB_TotalSupply
  \/ AB_Approve
  \/ AB_ApproveBind
  \/ AB_Receipt
  \/ AB_RejectBind
  \/ AB_RejectReceipt
  \/ AB_TransferOwnership
  \/ LG_Approve
  \/ LG_ApproveBind
  \/ TT_TotalSupply
  \/ TT_Transfer
  \/ TT_TransferOwnership
  \/ RF_Send
  \/ Exit

Spec == Init /\ [][Next]_vars

(***************************************************************************)
(* Reading the trace.                                                      *)
(***************************************************************************)
Idx == DOMAIN trace
IsCall(e) == e.k \in {"lib", "read", "tx"}
FailedCall(e) == IsCall(e) /\ ~e.ok
TxAt(n) == {i \in Idx : trace[i].k = "tx" /\ trace[i].n = n}
ReadAt(n) == {i \in Idx : trace[i].k = "read" /\ trace[i].n = n}
LineAt(n) == {i \in Idx : trace[i].k = "out" /\ trace[i].n = n}
Running == pc \notin {"idle", "main", "switch"}

(***************************************************************************)
(* C1.  deploy_transferTokenAndOwnership_refund.                           *)
(***************************************************************************)
\* the stage of the composite operation a step belongs to (0: none)
Stage(e) ==
  IF ~IsCall(e) THEN 0
  ELSE IF e.n \in {"DeployBEP20Contract", "TransactionReceipt"} THEN 1
  ELSE IF e.n \in {"TotalSupply", "Transfer", "TransferOwnership"} THEN 2
  ELSE IF e.n \in {"BalanceAt", "Refund", "SendAllRestBNB"} THEN 3
  ELSE 0

\* C1: in deploy_transferTokenAndOwnership_refund the steps of deployment
\* come before those of the token-and-ownership transfer, which come before
\* those of the refund, and once a step of a stage has failed no step of a
\* later stage is performed (no refund after a failed transfer).
C1_StagesInOrderAbortOnFailure ==
  flags.operation = DeployTransferRefund =>
    \A i, j \in Idx :
      (i < j /\ Stage(trace[i]) > 0 /\ Stage(trace[j]) > 0) =>
        /\ Stage(trace[i]) <= Stage(trace[j])
        /\ (~trace[i].ok => Stage(trace[j]) = Stage(trace[i]))

(***************************************************************************)
(* C2.  Abort on the first error.                                          *)
(***************************************************************************)
InvalidInputLines ==
  {"usage", "Invalid bep20 contract address", "Invalid refund address",
   "invalid peggy amount", "unsupported operation"}

\* a step reported an error: a call returned one, or an input was refused
ReportsError(e) ==
  FailedCall(e) \/ (e.k = "out" /\ e.n \in InvalidInputLines)

\* C2: in every operation, once a step has reported an error, nothing
\* follows it in that invocation but the printed error: no call, no
\* transaction, no chain read, no sleep and no result line.
C2_NothingAfterFirstError ==
  \A i, j \in Idx :
    (i < j /\ ReportsError(trace[i])) =>
      (trace[j].k = "out" /\ trace[j].n = "error" /\ j = i + 1)

(***************************************************************************)
(* C3.  The branch on the approveBind receipt.                             *)
(***************************************************************************)
\* C3: in approveBindAndTransferOwnership, once the approveBind receipt is
\* fetched with a status other than 1 the driver submits rejectBind for the
\* contract address and BEP2 symbol of the approveBind call, reports the
\* status of the rejectBind receipt it fetches, and ends; transferOwnership
\* is submitted only with an approveBind receipt of status 1, and no run
\* submits both rejectBind and transferOwnership.
C3_RejectInsteadOfTransferOwnership ==
  flags.operation = ApproveBindOp =>
    /\ TxAt("RejectBind") = {} \/ TxAt("TransferOwnership") = {}
    /\ TxAt("TransferOwnership") # {} => bindStatus = 1
    /\ \A i \in TxAt("RejectBind") :
         /\ bindStatus \notin {-1, 1}
         /\ \E a \in TxAt("ApproveBind") :
              /\ a < i
              /\ trace[a].arg = trace[i].arg
              /\ trace[a].to = trace[i].to
              /\ trace[i].arg = <<HexToAddress(flags.bep20ContractAddr),
                                  configData.BEP2Symbol>>
    /\ (bindStatus \notin {-1, 1} /\ pc # "AB_RejectBind") =>
         TxAt("RejectBind") # {}
    /\ \A r \in ReadAt("RejectReceipt") :
         trace[r].ok =>
           /\ r + 1 \in LineAt("reject bind tx recipient status")
           /\ trace[r + 1].amt = trace[r].amt
           /\ r + 1 = Len(trace)
           /\ pc = "done"
    /\ (pc = "done" /\ \E i \in TxAt("RejectBind") : trace[i].ok) =>
         ReadAt("RejectReceipt") # {}

\* a run that found the approveBind receipt failed, submitted rejectBind and
\* reported its receipt status
C3_Witness ==
  /\ flags.operation = ApproveBindOp
  /\ pc = "done"
  /\ bindStatus = MaxStatus
  /\ TxAt("RejectBind") # {}
  /\ LineAt("reject bind tx recipient status") # {}

(***************************************************************************)
(* C4.  rejectBind as compensation for a failed approveBind.               *)
(***************************************************************************)
\* an approveBind transaction of this invocation failed on the chain: its
\* receipt was fetched with a status other than 1, or the chain executed it
\* with such a status
ApproveBindFailedOnChain ==
  \/ bindStatus \notin {-1, 1}
  \/ \E i \in Idx : trace[i].k = "chain" /\ trace[i].n = "ApproveBind"
                    /\ trace[i].amt # 1

\* C4 as claimed: whenever an approveBind transaction submitted by either
\* operation fails, the tool afterwards submits rejectBind.
C4_AlwaysCompensated ==
  (pc = "done" /\ ApproveBindFailedOnChain) => TxAt("RejectBind") # {}

\* C4 as amended: approveBindAndTransferOwnership submits rejectBind, for the
\* contract and symbol of its approveBind, once it has fetched an approveBind
\* receipt whose status is not 1; approveBindFromLedger fetches no receipt
\* and never submits rejectBind, whatever becomes of its approveBind.
C4_CompensatedOnlyFromTempAccount ==
  /\ (flags.operation = ApproveBindOp /\ bindStatus \notin {-1, 1}
      /\ pc # "AB_RejectBind") =>
       \E i \in TxAt("RejectBind"), a \in TxAt("ApproveBind") :
         /\ a < i
         /\ trace[i].arg = trace[a].arg
         /\ trace[i].from = trace[a].from
  /\ flags.operation = ApproveBindFromLedger =>
       /\ TxAt("RejectBind") = {}
       /\ ReadAt("TransactionReceipt") = {}
       /\ bindStatus = -1

\* approveBindFromLedger ended with its approveBind failed on the chain
C4_Witness ==
  /\ flags.operation = ApproveBindFromLedger
  /\ pc = "done"
  /\ ApproveBindFailedOnChain
  /\ \E i \in TxAt("ApproveBind") : trace[i].ok

(***************************************************************************)
(* C5.  BindConfig validation.                                             *)
(***************************************************************************)
\* "0x" followed by 40 hexadecimal characters
IsHexAddress(s) ==
  /\ Len(s) = AddrStrLen
  /\ s[1] = "0" /\ s[2] = "x"
  /\ \A i \in 3..Len(s) : s[i] \in HexDigits

\* C5: a config is accepted on load exactly when its contract_data is valid
\* hex, its bep2_symbol is not empty and its ledger_account is "0x" followed
\* by 40 hexadecimal characters.
C5_ValidationAcceptsExactlyWellFormed ==
  \A i \in Idx :
    (trace[i].k = "lib" /\ trace[i].n = "readConfigData"
     /\ flags.configFile.json) =>
      (trace[i].ok <=>
         /\ HexDecodeOK(flags.configFile.cfg.ContractData)
         /\ flags.configFile.cfg.BEP2Symbol # <<>>
         /\ IsHexAddress(flags.configFile.cfg.LedgerAccount))

(***************************************************************************)
(* C6.  The refund amount.                                                 *)
(***************************************************************************)
\* the 40 hex digits of an address written with or without "0x", lowercased
DigitsOf(s) ==
  LET d == IF Len(s) = AddrStrLen THEN SubSeq(s, 3, Len(s)) ELSE s
  IN  [i \in 1..Len(d) |-> LowerHex(d[i])]

IsHex40(s) == Len(s) = AddrNibbles /\ \A i \in 1..Len(s) : s[i] \in HexDigits

\* the refund address string the operator supplied: the ledger-account flag
\* of refundRestBNB, the config's ledger_account in the composite operation
SuppliedRefundAddr ==
  IF flags.operation = RefundRestBNBOp
  THEN flags.ledgerAccount ELSE configData.LedgerAccount

WellFormedCliAddr(s) == HasPrefix(s, <<"0", "x">>) /\ Len(s) = AddrStrLen

CliAddr ==
  IF flags.operation = RefundRestBNBOp
  THEN flags.ledgerAccount ELSE flags.bep20ContractAddr

\* C7: past the operation switch, approveBindAndTransferOwnership,
\* approveBindFromLedger and refundRestBNB go on with an address that has the 0x prefix and length 42,
\* and refuse any other with an "Invalid ..." line before any account is
\* provisioned or any transaction submitted.
C7_WellFormedAddressAccepted ==
  (/\ flags.operation \in {ApproveBindOp, ApproveBindFromLedger,
                           RefundRestBNBOp}
   /\ Running /\ chainId # 0
   /\ flags.operation = ApproveBindFromLedger => SetStringOK(flags.peggyAmount))
  =>
    LET refused == LineAt("Invalid bep20 contract address") # {}
                   \/ LineAt("Invalid refund address") # {}
    IN  /\ WellFormedCliAddr(CliAddr) => ~refused
        /\ ~WellFormedCliAddr(CliAddr) =>
             /\ refused
             /\ tempAccount = NoAccount /\ ledgerAccount = NoAccount
             /\ \A i \in Idx : trace[i].k # "tx"

(***************************************************************************)
(* C8.  generateOrGetTempAccount.                                          *)
(***************************************************************************)
KeystoreCallFailed ==
  \E i \in Idx : /\ trace[i].k = "lib" /\ ~trace[i].ok
                 /\ trace[i].n \in {"Getwd", "NewAccount", "Unlock"}
Created == {i \in Idx : trace[i].k = "lib" /\ trace[i].n = "NewAccount"
                        /\ trace[i].ok}

\* C8: generateOrGetTempAccount, the keystore library's calls succeeding:
\* with zero accounts in the directory it creates exactly one account and
\* returns it unlocked; with one it returns that account unlocked and
\* creates nothing; with two or more it returns an error, whatever the
\* library does, and unlocks and creates nothing.
C8_GetOrCreateTempAccount ==
  \A i \in Idx :
    (trace[i].k = "lib" /\ trace[i].n = "Accounts") =>
      LET n == trace[i].amt IN
      /\ n = 0 =>
           /\ Cardinality(Created) <= 1
           /\ Cardinality(keystore) = Cardinality(Created)
           /\ ~KeystoreCallFailed =>
                /\ Cardinality(Created) = 1
                /\ tempAccount \in keystore
                /\ unlocked = {tempAccount}
      /\ n = 1 =>
           /\ Created = {}
           /\ Cardinality(keystore) = 1
           /\ ~KeystoreCallFailed =>
                /\ tempAccount \in keystore
                /\ unlocked = {tempAccount}
      /\ n >= 2 =>
           /\ Created = {}
           /\ Cardinality(keystore) = n
           /\ unlocked = {}
           /\ tempAccount = NoAccount
           /\ pc = "done"
           /\ trace[Len(trace)] = ErrLine

\* an empty directory got its one account, returned unlocked
C8_Witness ==
  /\ ks0 = {}
  /\ Cardinality(Created) = 1
  /\ tempAccount \in keystore
  /\ unlocked = {tempAccount}
  /\ \E i \in Idx : trace[i].n = "Accounts" /\ trace[i].amt = 0

(***************************************************************************)
(* C9.  At most one keystore account, always the same signer.              *)
(***************************************************************************)
AllTx == {i \in Idx : trace[i].k = "tx"}

\* C9 as claimed: from a directory of zero or one account, the directory
\* never holds more than one account, and once it holds one every
\* transaction of every operation is signed by that account.
C9_EveryInvocationSignsWithTempAccount ==
  Cardinality(ks0) <= 1 =>
    /\ Cardinality(keystore) <= 1
    /\ \A i \in AllTx : trace[i].from \in keystore

\* C9 as amended: from a directory of zero or one account, the directory
\* never holds more than one account and an account once there stays; every
\* transaction of the operations that use the temporary account is signed by
\* that one account, in this and in every earlier invocation, and those of
\* approveBindFromLedger by the account derived from the hardware wallet.
C9_OneTempAccountSignsKeystoreOperations ==
  Cardinality(ks0) <= 1 =>
    /\ Cardinality(keystore) <= 1
    /\ ks0 \subseteq keystore
    /\ tempSigners \subseteq keystore
    /\ \A i \in AllTx :
         IF flags.operation = ApproveBindFromLedger
         THEN trace[i].from = LedgerDerived(flags.ledgerAccountIndex)
         ELSE trace[i].from \in keystore /\ trace[i].from = tempAccount

\* an invocation signing with the account an earlier invocation created
C9_Witness ==
  /\ ks0 = {}
  /\ Created = {}
  /\ \E i \in AllTx : trace[i].from \in tempSigners /\ trace[i].ok
  /\ \E i \in Idx : trace[i].n = "Accounts" /\ trace[i].amt = 1

(***************************************************************************)
(* C10.  The delay after a submission.                                     *)
(***************************************************************************)
RECURSIVE SleptBetween(_, _)
\* seconds slept strictly between positions i and j of the trace
SleptBetween(i, j) ==
  IF i + 1 >= j THEN 0
  ELSE (IF trace[j - 1].k = "sleep" THEN trace[j - 1].amt ELSE 0)
       + SleptBetween(i, j - 1)

Submitted(j) == {i \in AllTx : i < j /\ trace[i].ok}

\* C10: every chain read and every transaction that follows a submitted
\* transaction in the same invocation is separated from the latest such
\* submission by 10 to 20 seconds of sleep.
C10_DelayAfterEverySubmission ==
  \A j \in Idx :
    (trace[j].k \in {"read", "tx"} /\ Submitted(j) # {}) =>
      LET i == CHOOSE m \in Submitted(j) : \A o \in Submitted(j) : o <= m
      IN  SleptBetween(i, j) >= 10 /\ SleptBetween(i, j) <= 20

\* a receipt fetched after the deployment and a refund sent after the
\* ownership transfer, each behind its sleep
C10_Witness ==
  /\ flags.operation = DeployTransferRefund
  /\ \E i \in TxAt("TransferOwnership") : trace[i].ok
  /\ \E i \in ReadAt("TransactionReceipt") : trace[i].ok
  /\ TxAt("Refund") # {}

C11_UsageWitness ==
  /\ flags.networkType = "devnet"
  /\ flags.operation = DeployContract
  /\ pc = "done"
  /\ trace = <<Out("usage")>>

(***************************************************************************)
(* C12.  A config that cannot be loaded.                                   *)
(***************************************************************************)
ConfigOperations ==
  {DeployContract, ApproveBindOp, DeployTransferRefund, ApproveBindFromLedger}

\* the invocation has a config that readConfigData refuses: a missing file,
\* a file that is not JSON, or one that Validate rejects
BadConfigInvocation ==
  /\ pc \notin {"idle", "main"}
  /\ flags.operation \in ConfigOperations
  /\ ReadConfigError(flags.configFile) # ""

\* what the trace and the locals show of such an invocation
BadConfigLeavesNoTrace ==
  /\ BadConfigInvocation =>
       /\ tempAccount = NoAccount /\ unlocked = {}
       /\ ~ledgerOpen /\ ledgerAccount = NoAccount
       /\ configData = NoConfig
       /\ contractAddr = NoAddr
       /\ \A i \in Idx :
            /\ trace[i].k \in {"lib", "out"}
            /\ trace[i].k = "lib" =>
                 trace[i].n \in {"DialContext", "readConfigData"}
  /\ \A i \in Idx :
       (trace[i].k = "lib" /\ trace[i].n = "readConfigData" /\ ~trace[i].ok)
         => /\ pc = "done"
            /\ i + 1 = Len(trace)
            /\ trace[i + 1] = ErrLine

\* C12: in the four operations that load the config file, a config that
\* cannot be read or fails validation ends the invocation at the error
\* line: the keystore directory is as it was, no account is created,
\* listed or unlocked, no hardware-wallet session is opened, no
\* transaction is submitted, nothing is read from the chain.
C12_BadConfigNoSideEffect ==
  /\ []BadConfigLeavesNoTrace
  /\ [][BadConfigInvocation => keystore' = keystore]_vars

\* a deployContract invocation whose config was refused
C12_Witness ==
  /\ BadConfigInvocation
  /\ flags.operation = DeployContract
  /\ chainId # 0
  /\ pc = "done"
  /\ \E i \in Idx : trace[i].n = "readConfigData" /\ ~trace[i].ok
=============================================================================
